---- MODULE Spec2Model ----
(***************************************************************************)
(* saferbq: identifier sanitizer (identifier.go) and query translator      *)
(* (query.go).  Text is a sequence of Unicode code points (integers); a    *)
(* bound value is a tagged record (nil, string or int).                    *)
(***************************************************************************)
EXTENDS Integers, Sequences, FiniteSets, TLC

VARIABLES
    r,            \* rune handed to isValidIdentifierChar
    valid,        \* its result
    identifier,   \* value handed to QuoteIdentifier
    quoteRet,     \* QuoteIdentifier's return pair
    sql,          \* translate's sql argument (the caller's variable)
    params,       \* translate's params argument (the caller's slice)
    ret,          \* translate's return triple
    q,            \* the Query object: Q, Parameters, originalSQL
    call,         \* the last Query method call and what it handed to bigquery
    pc,
    threads,      \* concurrent callers: each one's arguments, locals and position
    patterns      \* the package variables identifierParamRegex, namedParamRegex

vars == <<r, valid, identifier, quoteRet, sql, params, ret, q, call, pc, threads, patterns>>

(***************************************************************************)
(* Bounds of the model                                                     *)
(***************************************************************************)
MaxIdentLen == 3      \* code points of a string handed to QuoteIdentifier
MaxSqlPieces == 3     \* pieces a SQL text is put together from
MaxParams == 2        \* bindings supplied to one translate call

(***************************************************************************)
(* Program constants                                                       *)
(***************************************************************************)
underscore == 95
backtick == 96
dollarSign == 36
atSign == 64
questionMark == 63
maxIdentifierBytes == 1024

(***************************************************************************)
(* Generic helpers                                                         *)
(***************************************************************************)
Min(S) == CHOOSE x \in S : \A y \in S : x <= y

\* the elements of a finite set of integers, ascending
RECURSIVE SortedSeq(_)
SortedSeq(S) == IF S = {} THEN <<>> ELSE <<Min(S)>> \o SortedSeq(S \ {Min(S)})

\* all sequences over S of length 0..n
SeqsUpTo(S, n) == UNION {[1..k -> S] : k \in 0..n}

RECURSIVE Flatten(_)
Flatten(ss) == IF ss = <<>> THEN <<>> ELSE Head(ss) \o Flatten(Tail(ss))

Repeat(c, n) == [i \in 1..n |-> c]

\* number of positions of s holding c
CountRune(s, c) == Cardinality({i \in 1..Len(s) : s[i] = c})

\* len(s) of a Go string: the bytes of its UTF-8 encoding
RuneLen(c) == IF c < 128 THEN 1 ELSE IF c < 2048 THEN 2 ELSE IF c < 65536 THEN 3 ELSE 4

RECURSIVE SumLens(_,_)
SumLens(s, S) == IF S = {} THEN 0
                 ELSE LET c == CHOOSE x \in S : TRUE
                      IN  RuneLen(c) * CountRune(s, c) + SumLens(s, S \ {c})

ByteLen(s) == SumLens(s, {s[i] : i \in 1..Len(s)})

(***************************************************************************)
(* Go's unicode range tables, restricted to Basic Latin, Latin-1,          *)
(* Latin Extended, Combining Diacritical Marks, General Punctuation and    *)
(* the CJK Unified Ideographs.                                             *)
(***************************************************************************)
InTable(c, table) == \E p \in table : p[1] <= c /\ c <= p[2]

LetterTable == {<<65, 90>>, <<97, 122>>, <<170, 170>>, <<181, 181>>, <<186, 186>>,
                <<192, 214>>, <<216, 246>>, <<248, 705>>, <<19968, 40959>>}
MarkTable   == {<<768, 879>>}
NumberTable == {<<48, 57>>, <<178, 179>>, <<185, 185>>, <<188, 190>>}
PcTable     == {<<95, 95>>, <<8255, 8256>>}
PdTable     == {<<45, 45>>, <<8208, 8213>>}
ZsTable     == {<<32, 32>>, <<160, 160>>, <<8192, 8202>>}

IsLetter(c) == InTable(c, LetterTable)
IsMark(c)   == InTable(c, MarkTable)
IsNumber(c) == InTable(c, NumberTable)

(***************************************************************************)
(* identifier.go                                                           *)
(***************************************************************************)
\* variant: unicode.IsMark left out
isValidIdentifierChar_NoMark(c) ==
    IsLetter(c) \/ IsNumber(c) \/ InTable(c, PcTable \cup PdTable \cup ZsTable)

\* variant: every printable rune accepted (a deny-list of the control runes)
isValidIdentifierChar_Printable(c) == ~(c \in 0..31 \/ c = 127)

isValidIdentifierChar(c) ==
    \/ IsLetter(c)
    \/ IsMark(c)
    \/ IsNumber(c)
    \/ InTable(c, PcTable \cup PdTable \cup ZsTable)

\* variant: an invalid rune is replaced by '*', itself an invalid rune
filterResult_Star(s) ==
    [i \in 1..Len(s) |-> IF isValidIdentifierChar(s[i]) THEN s[i] ELSE 42]

\* variant: an invalid rune is left out, nothing is written in its place
filterResult_Dropped(s) == SelectSeq(s, isValidIdentifierChar)

\* filterIdentifierChars walks the runes of s once.  result gets the rune, or an
\* underscore for an invalid rune; replaced gets an invalid rune the first
\* time it is met (replacedMap remembers the ones already written).
filterResult(s) ==
    [i \in 1..Len(s) |-> IF isValidIdentifierChar(s[i]) THEN s[i] ELSE underscore]

\* variant: no replacedMap, every invalid rune is written to replaced
filterReplaced_NoDedup(s) ==
    LET at == SortedSeq({i \in 1..Len(s) : ~isValidIdentifierChar(s[i])})
    IN  [k \in 1..Len(at) |-> s[at[k]]]

filterReplaced(s) ==
    LET first == {i \in 1..Len(s) :
                    /\ ~isValidIdentifierChar(s[i])
                    /\ \A j \in 1..(i - 1) : s[j] # s[i]}
        at == SortedSeq(first)
    IN  [k \in 1..Len(at) |-> s[at[k]]]

filterIdentifierChars(s) == <<filterResult(s), filterReplaced(s)>>

\* values: nil, a string, an int
Nil == [kind |-> "nil", s |-> <<>>, n |-> 0]
Str(s) == [kind |-> "string", s |-> s, n |-> 0]
IntVal(n) == [kind |-> "int", s |-> <<>>, n |-> n]

\* fmt.Sprintf("%v", v) of an int: its decimal digits, '-' first when negative
RECURSIVE Digits(_)
Digits(n) == IF n < 10 THEN <<48 + n>> ELSE Digits(n \div 10) \o <<48 + (n % 10)>>

Sprint(v) == IF v.kind = "string" THEN v.s
             ELSE IF v.kind = "int" THEN (IF v.n < 0 THEN <<45>> \o Digits(-v.n) ELSE Digits(v.n))
             ELSE <<60, 110, 105, 108, 62>>     \* "<nil>"

\* variant: no case for nil, which is then formatted with %v
QuoteIdentifier_NilFormatted(v) ==
    LET f == CASE v.kind = "string" -> filterIdentifierChars(v.s)
               [] OTHER             -> filterIdentifierChars(Sprint(v))
    IN  <<(<<backtick>> \o f[1]) \o <<backtick>>, f[2]>>

QuoteIdentifier(v) ==
    LET f == CASE v.kind = "nil"    -> filterIdentifierChars(<<>>)
               [] v.kind = "string" -> filterIdentifierChars(v.s)
               [] OTHER             -> filterIdentifierChars(Sprint(v))
    IN  <<(<<backtick>> \o f[1]) \o <<backtick>>, f[2]>>

(***************************************************************************)
(* query.go: placeholder discovery                                         *)
(***************************************************************************)
IsNameStart(c) == c \in 65..90 \/ c \in 97..122 \/ c = underscore
IsNameChar(c)  == IsNameStart(c) \/ c \in 48..57

\* last position of the match of  marker [a-zA-Z_][a-zA-Z0-9_]*  that starts at i
MatchEnd(s, i) ==
    Min({e \in (i + 1)..Len(s) : e = Len(s) \/ ~IsNameChar(s[e + 1])})

\* regexp FindAll: the leftmost, greedy, non-overlapping matches in order.  A
\* match holds no marker after its first rune, so every marker followed by a
\* name-start rune begins a match.
FindAll(marker, s) ==
    LET at == SortedSeq({i \in 1..(Len(s) - 1) : s[i] = marker /\ IsNameStart(s[i + 1])})
    IN  [k \in 1..Len(at) |-> SubSeq(s, at[k], MatchEnd(s, at[k]))]

identifierParamRegex(s) == FindAll(dollarSign, s)
namedParamRegex(s) == FindAll(atSign, s)

\* the two package variables after regexp.MustCompile: each pattern is known
\* by its marker
compiledPatterns == [identifier |-> dollarSign, named |-> atSign]

Range(f) == {f[x] : x \in DOMAIN f}

\* variant: strings.Contains in place of strings.Count
Count_Contains(s, c) == IF \E i \in 1..Len(s) : s[i] = c THEN 1 ELSE 0

\* strings.Count(s, "?")
Count(s, c) == CountRune(s, c)

\* strings.ReplaceAll for a non-empty old: the non-overlapping occurrences of
\* old, leftmost first, each replaced by new
RECURSIVE replaceFrom(_,_,_,_)
replaceFrom(s, old, new, from) ==
    LET at == {i \in from..(Len(s) - Len(old) + 1) : SubSeq(s, i, i + Len(old) - 1) = old}
    IN  IF at = {} THEN SubSeq(s, from, Len(s))
        ELSE (SubSeq(s, from, Min(at) - 1) \o new) \o replaceFrom(s, old, new, Min(at) + Len(old))

\* variant: only the leftmost occurrence is replaced (strings.Replace with n = 1)
ReplaceAll_First(s, old, new) ==
    LET at == {i \in 1..(Len(s) - Len(old) + 1) : SubSeq(s, i, i + Len(old) - 1) = old}
    IN  IF at = {} THEN s
        ELSE (SubSeq(s, 1, Min(at) - 1) \o new) \o SubSeq(s, Min(at) + Len(old), Len(s))

ReplaceAll(s, old, new) == replaceFrom(s, old, new, 1)

(***************************************************************************)
(* query.go: translate                                                     *)
(***************************************************************************)
\* a Go map: a function on its key set
EmptyMap == [k \in {} |-> 0]
Put(m, k, v) == [x \in DOMAIN m \cup {k} |-> IF x = k THEN v ELSE m[x]]

\* the orders in which a range over a map with key set S may visit its keys
Orders(S) == {o \in [1..Cardinality(S) -> S] : \A i, j \in DOMAIN o : o[i] = o[j] => i = j}

NoRet == [sql |-> <<>>, params |-> <<>>, paramsNil |-> TRUE, err |-> "none",
          name |-> <<>>, chars |-> <<>>, found |-> 0, provided |-> 0, subst |-> <<>>]

\* variant: the two counts of the message swapped
errorReturn_SwappedCounts(kind, name, chars, found, provided) ==
    [sql |-> <<>>, params |-> <<>>, paramsNil |-> TRUE, err |-> kind,
     name |-> name, chars |-> chars, found |-> provided, provided |-> found, subst |-> <<>>]

\* return "", nil, fmt.Errorf(...)
errorReturn(kind, name, chars, found, provided) ==
    [sql |-> <<>>, params |-> <<>>, paramsNil |-> TRUE, err |-> kind,
     name |-> name, chars |-> chars, found |-> found, provided |-> provided, subst |-> <<>>]

\* return result, allParameters, nil  (subst: the replacements made, in order)
successReturn(result, allParameters, subst) ==
    [sql |-> result, params |-> allParameters, paramsNil |-> FALSE, err |-> "nil",
     name |-> <<>>, chars |-> <<>>, found |-> 0, provided |-> 0, subst |-> subst]

classifyInit ==
    [parameters |-> EmptyMap, identifiers |-> EmptyMap, allParameters |-> <<>>,
     positionalParameterCount |-> 0, err |-> "nil", name |-> <<>>]

\* variant: the binding is appended before its name is stripped
RECURSIVE classifyLoop_KeepMarker(_,_,_)
classifyLoop_KeepMarker(ps, i, st) ==
    IF i > Len(ps) THEN st
    ELSE LET p == ps[i]
             paramName == p.Name
             stripped == [p EXCEPT !.Name = Tail(paramName)]
         IN  IF Len(paramName) > 0
             THEN CASE paramName[1] = atSign ->
                         classifyLoop_KeepMarker(ps, i + 1,
                             [st EXCEPT !.parameters = Put(@, paramName, stripped),
                                        !.allParameters = Append(@, p)])
                    [] paramName[1] = dollarSign ->
                         classifyLoop_KeepMarker(ps, i + 1,
                             [st EXCEPT !.identifiers = Put(@, paramName, p.Value)])
                    [] OTHER ->
                         [st EXCEPT !.err = "ErrInvalidParameterName", !.name = paramName]
             ELSE classifyLoop_KeepMarker(ps, i + 1,
                      [st EXCEPT !.positionalParameterCount = @ + 1,
                                 !.allParameters = Append(@, p)])

\* variant: no default case, a name without marker is passed over
RECURSIVE classifyLoop_NoDefault(_,_,_)
classifyLoop_NoDefault(ps, i, st) ==
    IF i > Len(ps) THEN st
    ELSE LET p == ps[i]
             paramName == p.Name
             stripped == [p EXCEPT !.Name = Tail(paramName)]
         IN  IF Len(paramName) > 0
             THEN CASE paramName[1] = atSign ->
                         classifyLoop_NoDefault(ps, i + 1,
                             [st EXCEPT !.parameters = Put(@, paramName, stripped),
                                        !.allParameters = Append(@, stripped)])
                    [] paramName[1] = dollarSign ->
                         classifyLoop_NoDefault(ps, i + 1,
                             [st EXCEPT !.identifiers = Put(@, paramName, p.Value)])
                    [] OTHER ->
                         classifyLoop_NoDefault(ps, i + 1, st)
             ELSE classifyLoop_NoDefault(ps, i + 1,
                      [st EXCEPT !.positionalParameterCount = @ + 1,
                                 !.allParameters = Append(@, p)])

\* variant: the rune after the marker is read without a length check, which
\* panics (index out of range) on a name that is only the marker
RECURSIVE classifyLoop_UncheckedIndex(_,_,_)
classifyLoop_UncheckedIndex(ps, i, st) ==
    IF i > Len(ps) THEN st
    ELSE LET p == ps[i]
             paramName == p.Name
             stripped == [p EXCEPT !.Name = Tail(paramName)]
         IN  IF Len(paramName) > 0
             THEN CASE paramName[1] \in {atSign, dollarSign} /\ Len(paramName) = 1 ->
                         [st EXCEPT !.err = "panic", !.name = paramName]
                    [] paramName[1] = atSign /\ Len(paramName) > 1 ->
                         classifyLoop_UncheckedIndex(ps, i + 1,
                             [st EXCEPT !.parameters = Put(@, paramName, stripped),
                                        !.allParameters = Append(@, stripped)])
                    [] paramName[1] = dollarSign /\ Len(paramName) > 1 ->
                         classifyLoop_UncheckedIndex(ps, i + 1,
                             [st EXCEPT !.identifiers = Put(@, paramName, p.Value)])
                    [] OTHER ->
                         [st EXCEPT !.err = "ErrInvalidParameterName", !.name = paramName]
             ELSE classifyLoop_UncheckedIndex(ps, i + 1,
                      [st EXCEPT !.positionalParameterCount = @ + 1,
                                 !.allParameters = Append(@, p)])

\* lines 103-121: p is a copy of params[i]; the caller's slice is not written.
\* paramName[0] is the first byte; the names drawn here are ASCII.
RECURSIVE classifyLoop(_,_,_)
classifyLoop(ps, i, st) ==
    IF i > Len(ps) THEN st
    ELSE LET p == ps[i]
             paramName == p.Name
             stripped == [p EXCEPT !.Name = Tail(paramName)]
         IN  IF Len(paramName) > 0
             THEN CASE paramName[1] = atSign ->
                         classifyLoop(ps, i + 1,
                             [st EXCEPT !.parameters = Put(@, paramName, stripped),
                                        !.allParameters = Append(@, stripped)])
                    [] paramName[1] = dollarSign ->
                         classifyLoop(ps, i + 1,
                             [st EXCEPT !.identifiers = Put(@, paramName, p.Value)])
                    [] OTHER ->
                         [st EXCEPT !.err = "ErrInvalidParameterName", !.name = paramName]
             ELSE classifyLoop(ps, i + 1,
                      [st EXCEPT !.positionalParameterCount = @ + 1,
                                 !.allParameters = Append(@, p)])

\* variant: the length limit counts runes, not bytes
RECURSIVE replaceLoop_RuneCount(_,_,_,_,_)
replaceLoop_RuneCount(order, i, result, subst, st) ==
    IF i > Len(order) THEN successReturn(result, st.allParameters, subst)
    ELSE LET ident == order[i]
             qr == QuoteIdentifier(st.identifiers[ident])
             quoted == qr[1]
             replaced == qr[2]
         IN  IF replaced # <<>>
             THEN errorReturn("ErrIdentifierInvalidChars", ident, replaced, 0, 0)
             ELSE IF Len(quoted) = 2
             THEN errorReturn("ErrIdentifierEmpty", ident, <<>>, 0, 0)
             ELSE IF Len(quoted) > maxIdentifierBytes + 2
             THEN errorReturn("ErrIdentifierTooLong", ident, <<>>, 0, 0)
             ELSE replaceLoop_RuneCount(order, i + 1, ReplaceAll(result, ident, quoted),
                              Append(subst, [identifier |-> ident, quoted |-> quoted]), st)

\* variant: an identifier error returns the SQL rewritten so far
RECURSIVE replaceLoop_Partial(_,_,_,_,_)
replaceLoop_Partial(order, i, result, subst, st) ==
    IF i > Len(order) THEN successReturn(result, st.allParameters, subst)
    ELSE LET ident == order[i]
             qr == QuoteIdentifier(st.identifiers[ident])
             quoted == qr[1]
             replaced == qr[2]
         IN  IF replaced # <<>>
             THEN [errorReturn("ErrIdentifierInvalidChars", ident, replaced, 0, 0)
                      EXCEPT !.sql = result]
             ELSE IF ByteLen(quoted) = 2
             THEN [errorReturn("ErrIdentifierEmpty", ident, <<>>, 0, 0) EXCEPT !.sql = result]
             ELSE IF ByteLen(quoted) > maxIdentifierBytes + 2
             THEN [errorReturn("ErrIdentifierTooLong", ident, <<>>, 0, 0) EXCEPT !.sql = result]
             ELSE replaceLoop_Partial(order, i + 1, ReplaceAll(result, ident, quoted),
                              Append(subst, [identifier |-> ident, quoted |-> quoted]), st)

\* variant: the empty-identifier check left out
RECURSIVE replaceLoop_NoEmptyCheck(_,_,_,_,_)
replaceLoop_NoEmptyCheck(order, i, result, subst, st) ==
    IF i > Len(order) THEN successReturn(result, st.allParameters, subst)
    ELSE LET ident == order[i]
             qr == QuoteIdentifier(st.identifiers[ident])
             quoted == qr[1]
             replaced == qr[2]
         IN  IF replaced # <<>>
             THEN errorReturn("ErrIdentifierInvalidChars", ident, replaced, 0, 0)
             ELSE IF ByteLen(quoted) > maxIdentifierBytes + 2
             THEN errorReturn("ErrIdentifierTooLong", ident, <<>>, 0, 0)
             ELSE replaceLoop_NoEmptyCheck(order, i + 1, ReplaceAll(result, ident, quoted),
                              Append(subst, [identifier |-> ident, quoted |-> quoted]), st)

\* variant: the length limit is exclusive (>= in place of >)
RECURSIVE replaceLoop_LimitExclusive(_,_,_,_,_)
replaceLoop_LimitExclusive(order, i, result, subst, st) ==
    IF i > Len(order) THEN successReturn(result, st.allParameters, subst)
    ELSE LET ident == order[i]
             qr == QuoteIdentifier(st.identifiers[ident])
             quoted == qr[1]
             replaced == qr[2]
         IN  IF replaced # <<>>
             THEN errorReturn("ErrIdentifierInvalidChars", ident, replaced, 0, 0)
             ELSE IF ByteLen(quoted) = 2
             THEN errorReturn("ErrIdentifierEmpty", ident, <<>>, 0, 0)
             ELSE IF ByteLen(quoted) >= maxIdentifierBytes + 2
             THEN errorReturn("ErrIdentifierTooLong", ident, <<>>, 0, 0)
             ELSE replaceLoop_LimitExclusive(order, i + 1, ReplaceAll(result, ident, quoted),
                              Append(subst, [identifier |-> ident, quoted |-> quoted]), st)

\* variant: the length is checked before the rejected characters
RECURSIVE replaceLoop_LengthFirst(_,_,_,_,_)
replaceLoop_LengthFirst(order, i, result, subst, st) ==
    IF i > Len(order) THEN successReturn(result, st.allParameters, subst)
    ELSE LET ident == order[i]
             qr == QuoteIdentifier(st.identifiers[ident])
             quoted == qr[1]
             replaced == qr[2]
         IN  IF ByteLen(quoted) = 2
             THEN errorReturn("ErrIdentifierEmpty", ident, <<>>, 0, 0)
             ELSE IF ByteLen(quoted) > maxIdentifierBytes + 2
             THEN errorReturn("ErrIdentifierTooLong", ident, <<>>, 0, 0)
             ELSE IF replaced # <<>>
             THEN errorReturn("ErrIdentifierInvalidChars", ident, replaced, 0, 0)
             ELSE replaceLoop_LengthFirst(order, i + 1, ReplaceAll(result, ident, quoted),
                              Append(subst, [identifier |-> ident, quoted |-> quoted]), st)

\* variant: the name is replaced without its marker
RECURSIVE replaceLoop_BareName(_,_,_,_,_)
replaceLoop_BareName(order, i, result, subst, st) ==
    IF i > Len(order) THEN successReturn(result, st.allParameters, subst)
    ELSE LET ident == order[i]
             qr == QuoteIdentifier(st.identifiers[ident])
             quoted == qr[1]
             replaced == qr[2]
         IN  IF replaced # <<>>
             THEN errorReturn("ErrIdentifierInvalidChars", ident, replaced, 0, 0)
             ELSE IF ByteLen(quoted) = 2
             THEN errorReturn("ErrIdentifierEmpty", ident, <<>>, 0, 0)
             ELSE IF ByteLen(quoted) > maxIdentifierBytes + 2
             THEN errorReturn("ErrIdentifierTooLong", ident, <<>>, 0, 0)
             ELSE replaceLoop_BareName(order, i + 1, ReplaceAll(result, Tail(ident), quoted),
                              Append(subst, [identifier |-> ident, quoted |-> quoted]), st)

\* lines 168-183, the keys of identifiers visited in the given order
RECURSIVE replaceLoop(_,_,_,_,_)
replaceLoop(order, i, result, subst, st) ==
    IF i > Len(order) THEN successReturn(result, st.allParameters, subst)
    ELSE LET ident == order[i]
             qr == QuoteIdentifier(st.identifiers[ident])
             quoted == qr[1]
             replaced == qr[2]
         IN  IF replaced # <<>>
             THEN errorReturn("ErrIdentifierInvalidChars", ident, replaced, 0, 0)
             ELSE IF ByteLen(quoted) = 2
             THEN errorReturn("ErrIdentifierEmpty", ident, <<>>, 0, 0)
             ELSE IF ByteLen(quoted) > maxIdentifierBytes + 2
             THEN errorReturn("ErrIdentifierTooLong", ident, <<>>, 0, 0)
             ELSE replaceLoop(order, i + 1, ReplaceAll(result, ident, quoted),
                              Append(subst, [identifier |-> ident, quoted |-> quoted]), st)

\* line 108, p.Name = paramName[1:]: p is the variable of  for _, p := range
\* params, a copy of the element, so the element of the caller's slice keeps
\* its value.  variant: p refers to the element itself (p := &params[i])
assignToLoopVariable_Aliased(element, p) == p

assignToLoopVariable(element, p) == element

\* the caller's slice after a call of translate: the loop at lines 103-121
\* visits the bindings up to the first invalid name
callerParams(sqlArg, ps) ==
    IF sqlArg = <<>> THEN ps
    ELSE [i \in 1..Len(ps) |->
            IF /\ \A j \in 1..(i - 1) :
                      ps[j].Name = <<>> \/ ps[j].Name[1] \in {atSign, dollarSign}
               /\ ps[i].Name # <<>>
               /\ ps[i].Name[1] = atSign
            THEN assignToLoopVariable(ps[i], [ps[i] EXCEPT !.Name = Tail(@)])
            ELSE ps[i]]

\* variant: the empty-SQL check left out
translate_NoEmptyCheck(sqlArg, paramsArg) ==
    LET st == classifyLoop(paramsArg, 1, classifyInit)
        identifiersInSql == Range(identifierParamRegex(sqlArg))
        parametersInSql == Range(namedParamRegex(sqlArg))
        positionalParamsInSql == Count(sqlArg, questionMark)
    IN  IF st.err # "nil" THEN {errorReturn(st.err, st.name, <<>>, 0, 0)}
        ELSE IF \E n \in DOMAIN st.parameters : n \notin parametersInSql
        THEN {errorReturn("ErrParameterNotFound", n, <<>>, 0, 0) :
                 n \in {k \in DOMAIN st.parameters : k \notin parametersInSql}}
        ELSE IF \E n \in parametersInSql : n \notin DOMAIN st.parameters
        THEN {errorReturn("ErrParameterNotProvided", n, <<>>, 0, 0) :
                 n \in {k \in parametersInSql : k \notin DOMAIN st.parameters}}
        ELSE IF \E n \in DOMAIN st.identifiers : n \notin identifiersInSql
        THEN {errorReturn("ErrIdentifierNotFound", n, <<>>, 0, 0) :
                 n \in {k \in DOMAIN st.identifiers : k \notin identifiersInSql}}
        ELSE IF \E n \in identifiersInSql : n \notin DOMAIN st.identifiers
        THEN {errorReturn("ErrIdentifierNotProvided", n, <<>>, 0, 0) :
                 n \in {k \in identifiersInSql : k \notin DOMAIN st.identifiers}}
        ELSE IF positionalParamsInSql > st.positionalParameterCount
        THEN {errorReturn("ErrNotEnoughPositionalParams", <<>>, <<>>,
                          positionalParamsInSql, st.positionalParameterCount)}
        ELSE IF positionalParamsInSql < st.positionalParameterCount
        THEN {errorReturn("ErrTooManyPositionalParams", <<>>, <<>>,
                          positionalParamsInSql, st.positionalParameterCount)}
        ELSE {replaceLoop(order, 1, sqlArg, <<>>, st) : order \in Orders(DOMAIN st.identifiers)}

\* variant: the two identifier checks made before the two parameter checks
translate_IdentifiersFirst(sqlArg, paramsArg) ==
    IF sqlArg = <<>> THEN {errorReturn("ErrEmptySQL", <<>>, <<>>, 0, 0)}
    ELSE
    LET st == classifyLoop(paramsArg, 1, classifyInit)
        identifiersInSql == Range(identifierParamRegex(sqlArg))
        parametersInSql == Range(namedParamRegex(sqlArg))
        positionalParamsInSql == Count(sqlArg, questionMark)
    IN  IF st.err # "nil" THEN {errorReturn(st.err, st.name, <<>>, 0, 0)}
        ELSE IF \E n \in DOMAIN st.identifiers : n \notin identifiersInSql
        THEN {errorReturn("ErrIdentifierNotFound", n, <<>>, 0, 0) :
                 n \in {k \in DOMAIN st.identifiers : k \notin identifiersInSql}}
        ELSE IF \E n \in identifiersInSql : n \notin DOMAIN st.identifiers
        THEN {errorReturn("ErrIdentifierNotProvided", n, <<>>, 0, 0) :
                 n \in {k \in identifiersInSql : k \notin DOMAIN st.identifiers}}
        ELSE IF \E n \in DOMAIN st.parameters : n \notin parametersInSql
        THEN {errorReturn("ErrParameterNotFound", n, <<>>, 0, 0) :
                 n \in {k \in DOMAIN st.parameters : k \notin parametersInSql}}
        ELSE IF \E n \in parametersInSql : n \notin DOMAIN st.parameters
        THEN {errorReturn("ErrParameterNotProvided", n, <<>>, 0, 0) :
                 n \in {k \in parametersInSql : k \notin DOMAIN st.parameters}}
        ELSE IF positionalParamsInSql > st.positionalParameterCount
        THEN {errorReturn("ErrNotEnoughPositionalParams", <<>>, <<>>,
                          positionalParamsInSql, st.positionalParameterCount)}
        ELSE IF positionalParamsInSql < st.positionalParameterCount
        THEN {errorReturn("ErrTooManyPositionalParams", <<>>, <<>>,
                          positionalParamsInSql, st.positionalParameterCount)}
        ELSE {replaceLoop(order, 1, sqlArg, <<>>, st) : order \in Orders(DOMAIN st.identifiers)}

\* the set of returns translate may produce: a range over a map visits the keys
\* in an unspecified order, so a loop that returns at the first failing key may
\* return at any failing key, and the replacements may be made in any order
translate(sqlArg, paramsArg) ==
    IF sqlArg = <<>> THEN {errorReturn("ErrEmptySQL", <<>>, <<>>, 0, 0)}
    ELSE
    LET st == classifyLoop(paramsArg, 1, classifyInit)
        identifiersInSql == Range(identifierParamRegex(sqlArg))
        parametersInSql == Range(namedParamRegex(sqlArg))
        positionalParamsInSql == Count(sqlArg, questionMark)
    IN  IF st.err # "nil" THEN {errorReturn(st.err, st.name, <<>>, 0, 0)}
        ELSE IF \E n \in DOMAIN st.parameters : n \notin parametersInSql
        THEN {errorReturn("ErrParameterNotFound", n, <<>>, 0, 0) :
                 n \in {k \in DOMAIN st.parameters : k \notin parametersInSql}}
        ELSE IF \E n \in parametersInSql : n \notin DOMAIN st.parameters
        THEN {errorReturn("ErrParameterNotProvided", n, <<>>, 0, 0) :
                 n \in {k \in parametersInSql : k \notin DOMAIN st.parameters}}
        ELSE IF \E n \in DOMAIN st.identifiers : n \notin identifiersInSql
        THEN {errorReturn("ErrIdentifierNotFound", n, <<>>, 0, 0) :
                 n \in {k \in DOMAIN st.identifiers : k \notin identifiersInSql}}
        ELSE IF \E n \in identifiersInSql : n \notin DOMAIN st.identifiers
        THEN {errorReturn("ErrIdentifierNotProvided", n, <<>>, 0, 0) :
                 n \in {k \in identifiersInSql : k \notin DOMAIN st.identifiers}}
        ELSE IF positionalParamsInSql > st.positionalParameterCount
        THEN {errorReturn("ErrNotEnoughPositionalParams", <<>>, <<>>,
                          positionalParamsInSql, st.positionalParameterCount)}
        ELSE IF positionalParamsInSql < st.positionalParameterCount
        THEN {errorReturn("ErrTooManyPositionalParams", <<>>, <<>>,
                          positionalParamsInSql, st.positionalParameterCount)}
        ELSE {replaceLoop(order, 1, sqlArg, <<>>, st) : order \in Orders(DOMAIN st.identifiers)}

\* lines 135-183 of translate, from the locals the earlier lines left: st from
\* the loop at 103-121, found from the matching at 123-134 and 161
translateChecks(sqlArg, st, found) ==
    IF \E n \in DOMAIN st.parameters : n \notin found.parametersInSql
    THEN {errorReturn("ErrParameterNotFound", n, <<>>, 0, 0) :
             n \in {k \in DOMAIN st.parameters : k \notin found.parametersInSql}}
    ELSE IF \E n \in found.parametersInSql : n \notin DOMAIN st.parameters
    THEN {errorReturn("ErrParameterNotProvided", n, <<>>, 0, 0) :
             n \in {k \in found.parametersInSql : k \notin DOMAIN st.parameters}}
    ELSE IF \E n \in DOMAIN st.identifiers : n \notin found.identifiersInSql
    THEN {errorReturn("ErrIdentifierNotFound", n, <<>>, 0, 0) :
             n \in {k \in DOMAIN st.identifiers : k \notin found.identifiersInSql}}
    ELSE IF \E n \in found.identifiersInSql : n \notin DOMAIN st.identifiers
    THEN {errorReturn("ErrIdentifierNotProvided", n, <<>>, 0, 0) :
             n \in {k \in found.identifiersInSql : k \notin DOMAIN st.identifiers}}
    ELSE IF found.positionalParamsInSql > st.positionalParameterCount
    THEN {errorReturn("ErrNotEnoughPositionalParams", <<>>, <<>>,
                      found.positionalParamsInSql, st.positionalParameterCount)}
    ELSE IF found.positionalParamsInSql < st.positionalParameterCount
    THEN {errorReturn("ErrTooManyPositionalParams", <<>>, <<>>,
                      found.positionalParamsInSql, st.positionalParameterCount)}
    ELSE {replaceLoop(order, 1, sqlArg, <<>>, st) : order \in Orders(DOMAIN st.identifiers)}

\* variant: the error of translate is formatted with %v, which cuts the chain
\* errors.Is follows
queryTranslate_FormatV(qv) ==
    IF qv.Q = <<>>
    THEN {[q |-> qv, err |-> "ErrEmptySQL", wrapped |-> FALSE, ret |-> NoRet]}
    ELSE {IF o.err # "nil"
          THEN [q |-> qv, err |-> "errorString", wrapped |-> FALSE, ret |-> o]
          ELSE [q |-> [Q |-> o.sql, Parameters |-> o.params, originalSQL |-> qv.Q],
                err |-> "nil", wrapped |-> FALSE, ret |-> o]
          : o \in translate(qv.Q, qv.Parameters)}

\* Query.translate (lines 187-203): the Query after the call, the error it
\* returns, and the return of the translate call it made (NoRet when none)
queryTranslate(qv) ==
    IF qv.Q = <<>>
    THEN {[q |-> qv, err |-> "ErrEmptySQL", wrapped |-> FALSE, ret |-> NoRet]}
    ELSE {IF o.err # "nil"
          THEN [q |-> qv, err |-> o.err, wrapped |-> TRUE, ret |-> o]
          ELSE [q |-> [Q |-> o.sql, Parameters |-> o.params, originalSQL |-> qv.Q],
                err |-> "nil", wrapped |-> FALSE, ret |-> o]
          : o \in translate(qv.Q, qv.Parameters)}

(***************************************************************************)
(* Inputs                                                                  *)
(***************************************************************************)
\* runes handed to isValidIdentifierChar
Runes == {0, 10, 31, 32, 33, 34, 36, 45, 46, 47, 48, 57, 58, 59, 61, 63, 64, 65, 90,
          91, 95, 96, 97, 122, 123, 127, 160, 178, 215, 233, 247, 769, 8212, 8255,
          34920, 128512}

\* runes of the strings handed to QuoteIdentifier:  a _ - ` ; . e-acute,
\* combining acute, grinning face
IdentRunes == {97, 95, 45, 96, 59, 46, 233, 769, 128512}

Identifiers ==
    {Nil} \cup {IntVal(n) : n \in {0, 7, 12345, -5}}
          \cup {Str(s) : s \in SeqsUpTo(IdentRunes, MaxIdentLen)}

\* SQL texts: up to MaxSqlPieces of  $a  1  @a  ?  `   (so $a1, $a$a1, @a?$a ...)
SqlPieces == {<<36, 97>>, <<49>>, <<64, 97>>, <<63>>, <<96>>}
SqlTexts == {Flatten(ps) : ps \in SeqsUpTo(SqlPieces, MaxSqlPieces)}

\* SQL texts of the runs that vary the identifier values: pieces  $a  1  ?  `
ValueSqlPieces == {<<36, 97>>, <<49>>, <<63>>, <<96>>}
ValueSqlTexts == {Flatten(ps) : ps \in SeqsUpTo(ValueSqlPieces, MaxSqlPieces)}

Binding(name, value) == [Name |-> name, Value |-> value]

\* bindings that vary the names:  $a  $a1  @a  positional  a  $  @ ; one $a
\* binding carries a value that is refused (a backtick)
NameBindings ==
    {Binding(n, v) : n \in {<<36, 97>>, <<36, 97, 49>>}, v \in {Str(<<116>>), IntVal(12)}}
    \cup {Binding(n, v) : n \in {<<>>, <<64, 97>>}, v \in {Str(<<116>>), IntVal(1)}}
    \cup {Binding(n, IntVal(1)) : n \in {<<97>>, <<36>>, <<64>>}}
    \cup {Binding(<<36, 97>>, Str(<<96>>))}

\* identifier values:  nil  ""  t  t.t  `;`  and, around the byte limit (e-acute
\* is 2 bytes):  e-acute x 512 (1024 bytes),  e-acute x 512 then a (1025 bytes,
\* 513 runes),  ` then e-acute x 512 (1025 bytes, an invalid rune)
IdentifierValues ==
    {Nil, Str(<<>>), Str(<<116>>), Str(<<116, 46, 116>>), Str(<<96, 59, 96>>),
     Str(Repeat(233, maxIdentifierBytes \div 2)),
     Str(Repeat(233, maxIdentifierBytes \div 2) \o <<97>>),
     Str(<<96>> \o Repeat(233, maxIdentifierBytes \div 2))}

\* bindings that vary the identifier values, and one positional binding
ValueBindings ==
    {Binding(<<36, 97>>, v) : v \in IdentifierValues}
    \cup {Binding(<<36, 97, 49>>, v) : v \in {Str(<<>>), Str(<<116>>), Str(<<96, 59, 96>>)}}
    \cup {Binding(<<>>, IntVal(1))}

\* bindings of a Query object
QueryBindings ==
    {Binding(<<36, 97>>, Str(<<116>>)), Binding(<<36, 97>>, Str(<<96>>)),
     Binding(<<36, 97, 49>>, IntVal(12)), Binding(<<64, 97>>, IntVal(1)),
     Binding(<<>>, IntVal(1)), Binding(<<97>>, IntVal(1))}

NoCall == [op |-> "none", err |-> "nil", wrapped |-> FALSE, executed |-> FALSE,
           sql |-> <<>>, params |-> <<>>]

NoQuery == [Q |-> <<>>, Parameters |-> <<>>, originalSQL |-> <<>>]

(***************************************************************************)
(* SpecIdentifier: a caller of identifier.go                               *)
(***************************************************************************)
InitIdentifier ==
    /\ \/ pc = "char" /\ r \in Runes /\ identifier = Nil
       \/ pc = "quote" /\ r = 0 /\ identifier \in Identifiers
    /\ valid = FALSE
    /\ quoteRet = <<<<>>, <<>>>>
    /\ sql = <<>> /\ params = <<>> /\ ret = NoRet /\ q = NoQuery /\ call = NoCall
    /\ threads = <<>> /\ patterns = compiledPatterns

IsValidIdentifierCharCall ==
    /\ pc = "char"
    /\ valid' = isValidIdentifierChar(r)
    /\ pc' = "charDone"
    /\ UNCHANGED <<r, identifier, quoteRet, sql, params, ret, q, call, threads, patterns>>

QuoteIdentifierCall ==
    /\ pc = "quote"
    /\ quoteRet' = QuoteIdentifier(identifier)
    /\ pc' = "quoteDone"
    /\ UNCHANGED <<r, valid, identifier, sql, params, ret, q, call, threads, patterns>>

NextIdentifier == IsValidIdentifierCharCall \/ QuoteIdentifierCall

SpecIdentifier == InitIdentifier /\ [][NextIdentifier]_vars

(***************************************************************************)
(* Spec, SpecValues: a caller of translate                                 *)
(***************************************************************************)
InitCommon ==
    /\ pc = "start"
    /\ r = 0 /\ valid = FALSE /\ identifier = Nil /\ quoteRet = <<<<>>, <<>>>>
    /\ ret = NoRet /\ call = NoCall
    /\ threads = <<>> /\ patterns = compiledPatterns

Init ==
    /\ InitCommon
    /\ sql \in SqlTexts
    /\ params \in SeqsUpTo(NameBindings, MaxParams)
    /\ q = NoQuery

InitValues ==
    /\ InitCommon
    /\ sql \in ValueSqlTexts
    /\ params \in SeqsUpTo(ValueBindings, MaxParams)
    /\ q = NoQuery

Translate ==
    /\ pc = "start"
    /\ \E o \in translate(sql, params) : ret' = o
    /\ params' = callerParams(sql, params)
    /\ pc' = "done"
    /\ UNCHANGED <<r, valid, identifier, quoteRet, sql, q, call, threads, patterns>>

Next == Translate

Spec == Init /\ [][Next]_vars

SpecValues == InitValues /\ [][Next]_vars

(***************************************************************************)
(* SpecQuery: a caller of a Query object                                   *)
(***************************************************************************)
InitQuery ==
    /\ InitCommon
    /\ sql = <<>> /\ params = <<>>
    /\ \E s \in SqlTexts, ps \in SeqsUpTo(QueryBindings, MaxParams) :
           q = [Q |-> s, Parameters |-> ps, originalSQL |-> s]

\* a method that runs q.translate() and, when it returned nil, hands the Query
\* to the embedded bigquery.Query
Method(op, execute) ==
    \E t \in queryTranslate(q) :
        /\ q' = t.q
        /\ ret' = t.ret
        /\ sql' = q.Q
        /\ params' = q.Parameters
        /\ call' = [op |-> op, err |-> t.err, wrapped |-> t.wrapped,
                    executed |-> execute /\ t.err = "nil",
                    sql |-> IF execute /\ t.err = "nil" THEN t.q.Q ELSE <<>>,
                    params |-> IF execute /\ t.err = "nil" THEN t.q.Parameters ELSE <<>>]
        /\ UNCHANGED <<r, valid, identifier, quoteRet, pc, threads, patterns>>

QueryTranslate == Method("translate", FALSE)
Run == Method("Run", TRUE)
Read == Method("Read", TRUE)

NextQuery == QueryTranslate \/ Run \/ Read

SpecQuery == InitQuery /\ [][NextQuery]_vars

(***************************************************************************)
(* SpecCaller: a caller that has one SQL text and one binding list and     *)
(* either hands them to translate, or to a Query whose methods it calls    *)
(***************************************************************************)
\* SQL texts of this caller:  empty  $a  @a  ?
CallerSqlTexts == {<<>>, <<36, 97>>, <<64, 97>>, <<63>>}

InitCaller ==
    /\ InitCommon
    /\ sql \in CallerSqlTexts
    /\ params \in SeqsUpTo(NameBindings, MaxParams)
    /\ q = [Q |-> sql, Parameters |-> params, originalSQL |-> sql]

CallerTranslate == call.op = "none" /\ Translate
CallerQueryTranslate == pc = "start" /\ QueryTranslate
CallerRun == pc = "start" /\ Run
CallerRead == pc = "start" /\ Read

NextCaller == CallerTranslate \/ CallerQueryTranslate \/ CallerRun \/ CallerRead

SpecCaller == InitCaller /\ [][NextCaller]_vars

(***************************************************************************)
(* SpecTerminates: a caller of translate that waits for its return         *)
(***************************************************************************)
\* bindings named  (empty)  @a  a  $  @  $a , the last with a good and a
\* refused value
MarkerBindings ==
    {b \in NameBindings : b.Value = IntVal(1)}
    \cup {Binding(<<36, 97>>, v) : v \in {Str(<<116>>), Str(<<96>>)}}

InitTerminates ==
    /\ InitCommon
    /\ sql \in CallerSqlTexts \cup {<<36, 97, 64, 97>>}
    /\ params \in SeqsUpTo(MarkerBindings, MaxParams)
    /\ q = NoQuery

\* translate is a synchronous call without suspension point: once called it
\* runs to its return
SpecTerminates == InitTerminates /\ [][Next]_vars /\ WF_vars(Translate)

(***************************************************************************)
(* SpecConcurrent: goroutines calling translate and QuoteIdentifier at the *)
(* same time, each on arguments of its own.  A call is cut into steps at   *)
(* the places where it reads the package variables or keeps a result in a  *)
(* local, and the steps of different goroutines interleave freely.         *)
(***************************************************************************)
MaxThreads == 2

noMatches == [identifiersInSql |-> {}, parametersInSql |-> {}, positionalParamsInSql |-> 0]

translateThread(sqlArg, paramsArg) ==
    [kind |-> "translate", sql |-> sqlArg, params |-> paramsArg, identifier |-> Nil,
     pc |-> "start", st |-> classifyInit, found |-> noMatches,
     filtered |-> <<<<>>, <<>>>>, ret |-> NoRet, quoteRet |-> <<<<>>, <<>>>>]

quoteThread(v) ==
    [kind |-> "QuoteIdentifier", sql |-> <<>>, params |-> <<>>, identifier |-> v,
     pc |-> "start", st |-> classifyInit, found |-> noMatches,
     filtered |-> <<<<>>, <<>>>>, ret |-> NoRet, quoteRet |-> <<<<>>, <<>>>>]

\* the calls a goroutine makes:  translate of  "", $a, @a, ?, $a@a, $a$a1  with
\* bindings that fit or miss, QuoteIdentifier of  nil, 7, t, `;`
ConcurrentCalls ==
    {translateThread(<<>>, <<>>),
     translateThread(<<36, 97>>, <<Binding(<<36, 97>>, Str(<<116>>))>>),
     translateThread(<<64, 97>>, <<Binding(<<64, 97>>, IntVal(1))>>),
     translateThread(<<63>>, <<Binding(<<>>, IntVal(1))>>),
     translateThread(<<36, 97, 64, 97>>, <<Binding(<<36, 97>>, Str(<<96>>))>>),
     translateThread(<<36, 97, 36, 97, 49>>,
                     <<Binding(<<36, 97>>, Str(<<116>>)),
                       Binding(<<36, 97, 49>>, Str(<<116>>))>>),
     translateThread(<<64, 97>>, <<Binding(<<97>>, IntVal(1))>>)}
    \cup {quoteThread(v) : v \in {Nil, IntVal(7), Str(<<116>>), Str(<<96, 59, 96>>)}}

InitConcurrent ==
    /\ pc = "threads"
    /\ r = 0 /\ valid = FALSE /\ identifier = Nil /\ quoteRet = <<<<>>, <<>>>>
    /\ sql = <<>> /\ params = <<>> /\ ret = NoRet /\ q = NoQuery /\ call = NoCall
    /\ threads \in [1..MaxThreads -> ConcurrentCalls]
    /\ patterns = compiledPatterns

\* variant: identifiersInSql, parametersInSql and the count are package
\* variables, so a goroutine's matches land in every goroutine's view
storeMatches_Shared(ths, t, m) == [u \in DOMAIN ths |-> [ths[u] EXCEPT !.found = m]]

\* lines 123-134 and 161: the maps and the count are locals of the call
storeMatches(ths, t, m) == [ths EXCEPT ![t].found = m]

\* lines 95-121: the empty-SQL check and the loop over the bindings
ClassifyStep(t) ==
    /\ threads[t].kind = "translate" /\ threads[t].pc = "start"
    /\ LET th == threads[t]
           st == classifyLoop(th.params, 1, classifyInit)
       IN  threads' =
             IF th.sql = <<>>
             THEN [threads EXCEPT ![t].ret = errorReturn("ErrEmptySQL", <<>>, <<>>, 0, 0),
                                  ![t].pc = "done"]
             ELSE IF st.err # "nil"
             THEN [threads EXCEPT ![t].ret = errorReturn(st.err, st.name, <<>>, 0, 0),
                                  ![t].pc = "done"]
             ELSE [threads EXCEPT ![t].st = st, ![t].pc = "find"]
    /\ UNCHANGED <<r, valid, identifier, quoteRet, sql, params, ret, q, call, pc, patterns>>

\* lines 123-134 and 161: both package patterns are read and matched against
\* the SQL text of the call, and the positional placeholders are counted
FindStep(t) ==
    /\ threads[t].kind = "translate" /\ threads[t].pc = "find"
    /\ LET th == threads[t]
           m == [identifiersInSql |-> Range(FindAll(patterns.identifier, th.sql)),
                 parametersInSql |-> Range(FindAll(patterns.named, th.sql)),
                 positionalParamsInSql |-> Count(th.sql, questionMark)]
       IN  threads' = [storeMatches(threads, t, m) EXCEPT ![t].pc = "check"]
    /\ UNCHANGED <<r, valid, identifier, quoteRet, sql, params, ret, q, call, pc, patterns>>

\* lines 135-183: the checks and the replacements, from the call's locals
CheckStep(t) ==
    /\ threads[t].kind = "translate" /\ threads[t].pc = "check"
    /\ \E o \in translateChecks(threads[t].sql, threads[t].st, threads[t].found) :
           threads' = [threads EXCEPT ![t].ret = o, ![t].pc = "done"]
    /\ UNCHANGED <<r, valid, identifier, quoteRet, sql, params, ret, q, call, pc, patterns>>

\* identifier.go, the type switch of QuoteIdentifier: the value is turned into
\* text and filtered, the pair is kept in result and replaced
FilterStep(t) ==
    /\ threads[t].kind = "QuoteIdentifier" /\ threads[t].pc = "start"
    /\ LET v == threads[t].identifier
           f == CASE v.kind = "nil"    -> filterIdentifierChars(<<>>)
                  [] v.kind = "string" -> filterIdentifierChars(v.s)
                  [] OTHER             -> filterIdentifierChars(Sprint(v))
       IN  threads' = [threads EXCEPT ![t].filtered = f, ![t].pc = "wrap"]
    /\ UNCHANGED <<r, valid, identifier, quoteRet, sql, params, ret, q, call, pc, patterns>>

\* identifier.go, the return of QuoteIdentifier: backticks around the result
WrapStep(t) ==
    /\ threads[t].kind = "QuoteIdentifier" /\ threads[t].pc = "wrap"
    /\ threads' = [threads EXCEPT
                     ![t].quoteRet = <<<<backtick>> \o threads[t].filtered[1] \o <<backtick>>,
                                      threads[t].filtered[2]>>,
                     ![t].pc = "done"]
    /\ UNCHANGED <<r, valid, identifier, quoteRet, sql, params, ret, q, call, pc, patterns>>

NextConcurrent ==
    \E t \in 1..MaxThreads :
        \/ ClassifyStep(t)
        \/ FindStep(t)
        \/ CheckStep(t)
        \/ FilterStep(t)
        \/ WrapStep(t)

SpecConcurrent == InitConcurrent /\ [][NextConcurrent]_vars

(***************************************************************************)
(* Reference notions the properties are stated with                        *)
(***************************************************************************)
\* general category of a code point in the Unicode Character Database
UnicodeCategory(c) ==
    CASE c \in 65..90 -> "Lu"
      [] c \in 97..122 \/ c = 233 -> "Ll"
      [] c \in 48..57 -> "Nd"
      [] c \in 0..31 \/ c = 127 -> "Cc"
      [] c = 32 \/ c = 160 -> "Zs"
      [] c \in {33, 34, 46, 47, 58, 59, 63, 64} -> "Po"
      [] c = 36 -> "Sc"
      [] c = 45 \/ c = 8212 -> "Pd"
      [] c = 61 \/ c = 215 \/ c = 247 -> "Sm"
      [] c = 91 \/ c = 123 -> "Ps"
      [] c = 95 \/ c = 8255 -> "Pc"
      [] c = 96 -> "Sk"
      [] c = 178 -> "No"
      [] c = 769 -> "Mn"
      [] c = 34920 -> "Lo"
      [] c = 128512 -> "So"

AllowedCategories ==
    {"Lu", "Ll", "Lt", "Lm", "Lo", "Mn", "Mc", "Me", "Nd", "Nl", "No", "Pc", "Pd", "Zs"}

Allowed(c) == UnicodeCategory(c) \in AllowedCategories

Succeeded == pc = "done" /\ ret.err = "nil"

HasMarker(name, marker) == name # <<>> /\ name[1] = marker

\* names of the supplied bindings that start with the marker
SuppliedNames(marker) ==
    {params[i].Name : i \in {j \in 1..Len(params) : HasMarker(params[j].Name, marker)}}

\* the value translate holds for an identifier name: the last binding of that name
EffectiveValue(name) ==
    params[CHOOSE i \in 1..Len(params) :
              /\ params[i].Name = name
              /\ \A j \in (i + 1)..Len(params) : params[j].Name # name].Value

\* textual form of a bound value
TextOf(v) == IF v.kind = "nil" THEN <<>> ELSE Sprint(v)

\* every correspondence check of the input passes
CorrespondenceOK ==
    /\ sql # <<>>
    /\ \A i \in 1..Len(params) :
           params[i].Name = <<>> \/ params[i].Name[1] \in {dollarSign, atSign}
    /\ Range(identifierParamRegex(sql)) = SuppliedNames(dollarSign)
    /\ Range(namedParamRegex(sql)) = SuppliedNames(atSign)
    /\ CountRune(sql, questionMark) =
           Cardinality({i \in 1..Len(params) : params[i].Name = <<>>})

HasInvalid(s) == \E i \in 1..Len(s) : ~Allowed(s[i])

\* chars lists exactly the distinct rejected code points of s, first-seen order
ListsRejected(chars, s) ==
    LET firstAt(c) == Min({i \in 1..Len(s) : s[i] = c})
    IN  /\ Range(chars) = {s[i] : i \in {j \in 1..Len(s) : ~Allowed(s[j])}}
        /\ \A i, j \in 1..Len(chars) : i < j => firstAt(chars[i]) < firstAt(chars[j])

(***************************************************************************)
(* Properties                                                              *)
(***************************************************************************)
\* C1: the string QuoteIdentifier returns starts with a backtick, ends with a
\* backtick and holds no backtick between the two.
C1_QuotedHasNoInnerBacktick ==
    pc = "quoteDone" =>
        LET quoted == quoteRet[1]
        IN  /\ Len(quoted) >= 2
            /\ quoted[1] = backtick
            /\ quoted[Len(quoted)] = backtick
            /\ \A i \in 2..(Len(quoted) - 1) : quoted[i] # backtick

C1_Witness ==
    /\ pc = "quoteDone"
    /\ identifier.kind = "string"
    /\ \E i \in 1..Len(identifier.s) : identifier.s[i] = backtick
    /\ Len(quoteRet[1]) = Len(identifier.s) + 2

C3_ValidIffAllowedCategory ==
    pc = "charDone" =>
        /\ valid <=> Allowed(r)
        /\ r \in {96, 59, 46, 47, 58, 36, 64, 33, 0, 10, 31, 127, 128512} => ~valid

C3_Witness == pc = "charDone" /\ r = 769 /\ valid

\* C4: an identifier binding whose value is a dotted path of allowed-class
\* segments is accepted: the placeholder is replaced by the whole value in one
\* pair of backticks and the native binding list is empty.
C4_DottedPathAccepted ==
    (/\ pc = "done"
     /\ CorrespondenceOK
     /\ Len(params) = 1
     /\ params[1].Name = <<36, 97>>
     /\ params[1].Value = Str(<<116, 46, 116>>))
    => /\ ret.err = "nil"
       /\ ret.sql = ReplaceAll(sql, <<36, 97>>, <<96, 116, 46, 116, 96>>)
       /\ ret.params = <<>>

\* C5: translate succeeds only if the identifier tokens of the SQL are the
\* supplied '$' names, the named tokens of the SQL are the supplied '@' names,
\* and the SQL holds as many '?' as there are bindings with an empty name.
C5_SuccessOnlyIfCorrespondence ==
    Succeeded =>
        /\ Range(identifierParamRegex(sql)) = SuppliedNames(dollarSign)
        /\ Range(namedParamRegex(sql)) = SuppliedNames(atSign)
        /\ CountRune(sql, questionMark) =
               Cardinality({i \in 1..Len(params) : params[i].Name = <<>>})

C5_Witness ==
    /\ Succeeded
    /\ SuppliedNames(dollarSign) # {}
    /\ CountRune(sql, questionMark) = 1

\* C6: translate never succeeds when two supplied bindings carry the same
\* non-empty name, so a successful result never holds two native bindings of
\* the same non-empty name.
C6_NoDuplicateNames ==
    Succeeded =>
        /\ \A i, j \in 1..Len(params) :
               (i # j /\ params[i].Name # <<>>) => params[i].Name # params[j].Name
        /\ \A i, j \in 1..Len(ret.params) :
               (i # j /\ ret.params[i].Name # <<>>) => ret.params[i].Name # ret.params[j].Name

\* the SQL with every identifier token replaced, in place, by the quoted value
\* the map f gives its name
RECURSIVE InPlace(_,_,_)
InPlace(s, i, f) ==
    IF i > Len(s) THEN <<>>
    ELSE IF s[i] = dollarSign /\ i < Len(s) /\ IsNameStart(s[i + 1])
    THEN (<<backtick>> \o TextOf(f[SubSeq(s, i, MatchEnd(s, i))]) \o <<backtick>>)
         \o InPlace(s, MatchEnd(s, i) + 1, f)
    ELSE <<s[i]>> \o InPlace(s, i + 1, f)

\* C7: on success the output SQL is the input SQL with each identifier token
\* replaced in place by the quoted value of the binding of exactly that name,
\* also when one bound name is a prefix of another.
C7_ReplacedInPlace ==
    Succeeded =>
        \E f \in [SuppliedNames(dollarSign) -> {params[i].Value : i \in 1..Len(params)}] :
            /\ \A n \in DOMAIN f : \E i \in 1..Len(params) :
                   params[i].Name = n /\ params[i].Value = f[n]
            /\ ret.sql = InPlace(sql, 1, f)

\* C8: on success the native binding list is exactly the supplied bindings
\* whose name is empty or starts with '@', in their order, each '@' name
\* without its '@', values unchanged; no '$' binding appears.
C8_NativeBindings ==
    Succeeded =>
        LET kept == SelectSeq(params, LAMBDA p : p.Name = <<>> \/ p.Name[1] = atSign)
        IN  /\ ~ret.paramsNil
            /\ Len(ret.params) = Len(kept)
            /\ \A i \in 1..Len(kept) :
                   /\ ret.params[i].Value = kept[i].Value
                   /\ ret.params[i].Name =
                          (IF kept[i].Name = <<>> THEN <<>> ELSE Tail(kept[i].Name))

C8_Witness ==
    /\ Succeeded
    /\ Len(ret.params) = 2
    /\ ret.params[1].Name # <<>>
    /\ ret.params[2].Name = <<>>

\* C9: a failing translate returns the empty SQL and no binding list, and a
\* failing Query.translate leaves the Query as it was.
C9_FailureReturnsNothing ==
    [][call'.err # "nil" =>
          /\ q' = q
          /\ ret'.sql = <<>>
          /\ ret'.params = <<>>
          /\ ret'.paramsNil]_vars

C9_Witness ==
    /\ call.op = "Run"
    /\ call.err = "ErrIdentifierInvalidChars"
    /\ Len(q.Parameters) = 2
    /\ q.Parameters[1].Name # q.Parameters[2].Name
    /\ q.Q = sql
    /\ ret.sql = <<>>

\* some identifier value translate holds has a code point outside the allowed class
SomeValueInvalid == \E n \in SuppliedNames(dollarSign) : HasInvalid(TextOf(EffectiveValue(n)))

ValueBytes(n) == ByteLen(TextOf(EffectiveValue(n)))

\* C11: with every other check passing (correspondence holds, no identifier
\* value has an invalid code point, every other identifier value has 1..1024
\* bytes), translate accepts an identifier value of n bytes exactly when
\* 1 <= n <= 1024; n = 0 (empty string or nil) fails with IdentifierEmpty and
\* n >= 1025 fails with IdentifierTooLong, each naming the placeholder.
C11_AcceptedIffOneTo1024Bytes ==
    (pc = "done" /\ CorrespondenceOK /\ ~SomeValueInvalid) =>
        \A n \in SuppliedNames(dollarSign) :
            (\A m \in SuppliedNames(dollarSign) \ {n} : ValueBytes(m) \in 1..maxIdentifierBytes)
            => /\ ret.err = "nil" <=> ValueBytes(n) \in 1..maxIdentifierBytes
               /\ ValueBytes(n) = 0 => ret.err = "ErrIdentifierEmpty" /\ ret.name = n
               /\ ValueBytes(n) = maxIdentifierBytes => ret.err = "nil"
               /\ ValueBytes(n) >= maxIdentifierBytes + 1 =>
                      ret.err = "ErrIdentifierTooLong" /\ ret.name = n

\* a value of 513 code points and 1025 bytes is refused as too long
C11_Witness ==
    /\ pc = "done"
    /\ CorrespondenceOK
    /\ ret.err = "ErrIdentifierTooLong"
    /\ ValueBytes(ret.name) = maxIdentifierBytes + 1
    /\ Len(TextOf(EffectiveValue(ret.name))) < maxIdentifierBytes

\* every supplied name is empty or starts with '$' or '@'
NamesValid ==
    \A i \in 1..Len(params) :
        params[i].Name = <<>> \/ params[i].Name[1] \in {dollarSign, atSign}

\* the named and the identifier placeholders of the SQL are the supplied names
NamedAndIdentifiersMatch ==
    /\ Range(identifierParamRegex(sql)) = SuppliedNames(dollarSign)
    /\ Range(namedParamRegex(sql)) = SuppliedNames(atSign)

\* '?' characters anywhere in the SQL; supplied bindings with an empty name
FoundPositional == CountRune(sql, questionMark)
ProvidedPositional == Cardinality({i \in 1..Len(params) : params[i].Name = <<>>})

\* C12: where translate reaches the positional comparison (non-empty SQL,
\* valid names, named and identifier correspondence), more '?' in the SQL than
\* empty-name bindings fails with NotEnoughPositionalParams and fewer with
\* TooManyPositionalParams; the two errors arise in no other way, and both
\* report exactly the count of '?' found and the count of bindings provided.
C12_PositionalCountsCompared ==
    (pc = "done" /\ sql # <<>>) =>
        /\ (NamesValid /\ NamedAndIdentifiersMatch) =>
               /\ FoundPositional > ProvidedPositional =>
                      ret.err = "ErrNotEnoughPositionalParams"
               /\ FoundPositional < ProvidedPositional =>
                      ret.err = "ErrTooManyPositionalParams"
        /\ ret.err = "ErrNotEnoughPositionalParams" =>
               /\ FoundPositional > ProvidedPositional
               /\ ret.found = FoundPositional /\ ret.provided = ProvidedPositional
        /\ ret.err = "ErrTooManyPositionalParams" =>
               /\ FoundPositional < ProvidedPositional
               /\ ret.found = FoundPositional /\ ret.provided = ProvidedPositional

\* two '?' around a backtick, one positional binding: found 2, provided 1
C12_Witness ==
    /\ pc = "done"
    /\ ret.err = "ErrNotEnoughPositionalParams"
    /\ ret.found = 2 /\ ret.provided = 1
    /\ CountRune(sql, backtick) = 1

\* the first supplied name that is non-empty and starts with neither marker
FirstInvalidName ==
    params[Min({i \in 1..Len(params) :
                   params[i].Name # <<>> /\ params[i].Name[1] \notin {dollarSign, atSign}})].Name

\* C13: with a non-empty SQL, a supplied binding whose non-empty name starts
\* with neither '$' nor '@' makes translate fail with InvalidParameterName
\* carrying that name (the first such name), whatever correspondence,
\* positional-count or identifier-value violation the input also has.
C13_InvalidNameReportedFirst ==
    (pc = "done" /\ sql # <<>> /\ ~NamesValid) =>
        /\ ret.err = "ErrInvalidParameterName"
        /\ ret.name = FirstInvalidName

\* an invalid name after an identifier binding with a refused value, in an
\* input whose identifier and positional correspondence fail as well
C13_Witness ==
    /\ pc = "done"
    /\ ret.err = "ErrInvalidParameterName"
    /\ Len(params) = 2
    /\ params[1] = Binding(<<36, 97>>, Str(<<96>>))
    /\ FoundPositional > ProvidedPositional
    /\ ~NamedAndIdentifiersMatch

\* C14: translate handed the empty SQL text fails with EmptySQL whatever the
\* bindings are (invalid names included), and with no other SQL text; and
\* Query.translate, Run and Read on a Query whose SQL is empty return an
\* error that is ErrEmptySQL, nothing being handed to bigquery.
C14_EmptySQLRefusedFirst ==
    /\ pc = "done" => (ret.err = "ErrEmptySQL" <=> sql = <<>>)
    /\ call.op # "none" =>
           /\ call.err = "ErrEmptySQL" <=> sql = <<>>
           /\ sql = <<>> => ~call.executed /\ q.Q = <<>>

\* translate handed the empty SQL text and two bindings, one of an invalid name
C14_Witness ==
    /\ pc = "done"
    /\ sql = <<>>
    /\ Len(params) = 2
    /\ ~NamesValid
    /\ ret.err = "ErrEmptySQL"

\* the SQL and the bindings use positional and named parameters together
MixesPositionalAndNamed ==
    /\ FoundPositional > 0 /\ ProvidedPositional > 0
    /\ Range(namedParamRegex(sql)) # {} /\ SuppliedNames(atSign) # {}

\* C15: a query that uses positional ('?') and named ('@') parameters together,
\* every placeholder having its binding, is refused with the error "cannot mix
\* positional (?) and named (@) parameters".
C15_MixingRefused ==
    (pc = "done" /\ CorrespondenceOK /\ MixesPositionalAndNamed) =>
        ret.err = "ErrMixedParameters"

\* the binding list with b put in before position i; without its i-th binding
InsertAt(ps, i, b) == (SubSeq(ps, 1, i - 1) \o <<b>>) \o SubSeq(ps, i, Len(ps))
RemoveAt(ps, i) == SubSeq(ps, 1, i - 1) \o SubSeq(ps, i + 1, Len(ps))

\* every return translate may produce for the SQL and the bindings ps is this error
AlwaysFailsWith(ps, kind, name) ==
    \A o \in translate(sql, ps) : o.err = kind /\ o.name = name

\* C16: from an input on which translate succeeds, adding a binding whose '@'
\* name is no named placeholder of the SQL gives ParameterNotFound, adding one
\* whose '$' name is no identifier placeholder gives IdentifierNotFound,
\* removing the binding of a named placeholder gives ParameterNotProvided and
\* removing the binding of an identifier placeholder IdentifierNotProvided.
C16_SymmetricDetection ==
    Succeeded =>
        /\ \A b \in NameBindings, i \in 1..(Len(params) + 1) :
               (HasMarker(b.Name, atSign) /\ b.Name \notin Range(namedParamRegex(sql)))
               => AlwaysFailsWith(InsertAt(params, i, b), "ErrParameterNotFound", b.Name)
        /\ \A b \in NameBindings, i \in 1..(Len(params) + 1) :
               (HasMarker(b.Name, dollarSign) /\ b.Name \notin Range(identifierParamRegex(sql)))
               => AlwaysFailsWith(InsertAt(params, i, b), "ErrIdentifierNotFound", b.Name)
        /\ \A i \in 1..Len(params) :
               HasMarker(params[i].Name, atSign)
               => AlwaysFailsWith(RemoveAt(params, i), "ErrParameterNotProvided", params[i].Name)
        /\ \A i \in 1..Len(params) :
               HasMarker(params[i].Name, dollarSign)
               => AlwaysFailsWith(RemoveAt(params, i), "ErrIdentifierNotProvided", params[i].Name)

\* no two supplied bindings carry the same non-empty name
NoRepeatedName ==
    \A i, j \in 1..Len(params) :
        (i # j /\ params[i].Name # <<>>) => params[i].Name # params[j].Name

\* non-empty SQL, the placeholders and the bindings in one-to-one
\* correspondence, as many '?' as positional bindings
WellFormed == CorrespondenceOK /\ NoRepeatedName

Occurs(tok, s) ==
    \E i \in 1..(Len(s) - Len(tok) + 1) : SubSeq(s, i, i + Len(tok) - 1) = tok

\* C18: on success no identifier-placeholder token matched in the input SQL
\* occurs in the output SQL, also when one bound name is a prefix of another;
\* the output holds no text of the identifier-placeholder form at all.
C18_NoIdentifierTokenSurvives ==
    Succeeded =>
        /\ \A tok \in Range(identifierParamRegex(sql)) : ~Occurs(tok, ret.sql)
        /\ identifierParamRegex(ret.sql) = <<>>

\* $a and $a1 both in the SQL, $a replaced first (so $a1 lost its prefix)
C18_Witness ==
    /\ Succeeded
    /\ Range(identifierParamRegex(sql)) = {<<36, 97>>, <<36, 97, 49>>}
    /\ ret.subst[1].identifier = <<36, 97>>
    /\ ret.sql = <<96, 116, 96, 96, 116, 96, 49>>

\* the text s with every code point outside the allowed class turned into '_'
Sanitized(s) == [i \in 1..Len(s) |-> IF Allowed(s[i]) THEN s[i] ELSE underscore]

\* C19: for every value QuoteIdentifier returns a pair (quoted, rejected) that
\* the value alone determines: quoted is the sanitized textual form between
\* two backticks, rejected the distinct refused code points in order of first
\* occurrence; for the empty string and for nil the pair is (``, "").
C19_QuoteTotalAndDetermined ==
    pc = "quoteDone" =>
        LET s == TextOf(identifier)
        IN  /\ quoteRet[1] = (<<backtick>> \o Sanitized(s)) \o <<backtick>>
            /\ ListsRejected(quoteRet[2], s)
            /\ identifier \in {Nil, Str(<<>>)} => quoteRet = <<<<backtick, backtick>>, <<>>>>

C19_Witness ==
    /\ pc = "quoteDone"
    /\ identifier = Nil
    /\ quoteRet = <<<<backtick, backtick>>, <<>>>>

\* C20: a value of allowed-class code points only comes back from
\* QuoteIdentifier unchanged between two backticks with nothing rejected; and
\* filterIdentifierChars applied to the text it has sanitized returns that
\* text unchanged with nothing rejected.
C20_RoundTripAndIdempotence ==
    pc = "quoteDone" =>
        LET s == TextOf(identifier)
            sanitized == SubSeq(quoteRet[1], 2, Len(quoteRet[1]) - 1)
        IN  /\ ~HasInvalid(s) => quoteRet = <<(<<backtick>> \o s) \o <<backtick>>, <<>>>>
            /\ filterIdentifierChars(sanitized) = <<sanitized, <<>>>>

\* a string with refused code points was sanitized, and a second pass keeps it
C20_Witness ==
    /\ pc = "quoteDone"
    /\ identifier.kind = "string"
    /\ Len(quoteRet[2]) = 2
    /\ filterIdentifierChars(SubSeq(quoteRet[1], 2, Len(quoteRet[1]) - 1))[2] = <<>>

\* what a caller sees of a return of translate
Observable(o) == <<o.sql, o.params, o.paramsNil, o.err, o.name, o.chars, o.found, o.provided>>

\* C21: translate is deterministic: whatever the iteration order of its maps,
\* a call on the same SQL and bindings returns the same outcome (the same SQL
\* and native bindings, or the same error kind, name and characters).
C21_OutcomeIndependentOfMapOrder ==
    pc = "done" => \A o \in translate(sql, params) : Observable(o) = Observable(ret)

\* the error kinds of the checks of translate
CheckErrors ==
    {"ErrEmptySQL", "ErrInvalidParameterName", "ErrParameterNotFound",
     "ErrParameterNotProvided", "ErrIdentifierNotFound", "ErrIdentifierNotProvided",
     "ErrNotEnoughPositionalParams", "ErrTooManyPositionalParams",
     "ErrIdentifierInvalidChars", "ErrIdentifierEmpty", "ErrIdentifierTooLong"}

\* C22: Run and Read hand the Query to bigquery exactly when Query.translate
\* returned nil, and then with the SQL and the native bindings translate
\* returned; when the translation fails nothing is handed over and the error
\* is (errors.Is) the sentinel of the check translate failed on.
C22_ExecutesOnlyAfterTranslation ==
    call.op \in {"Run", "Read"} =>
        /\ call.executed <=> call.err = "nil"
        /\ call.executed =>
               /\ ret.err = "nil"
               /\ ret \in translate(sql, params)
               /\ call.sql = ret.sql /\ call.params = ret.params
               /\ q.Q = ret.sql /\ q.Parameters = ret.params
        /\ ~call.executed =>
               /\ call.sql = <<>> /\ call.params = <<>>
               /\ call.err \in CheckErrors
               /\ sql = <<>> => call.err = "ErrEmptySQL"
               /\ sql # <<>> => call.err = ret.err /\ ret \in translate(sql, params)

\* Read has handed over a rewritten SQL and one native binding
C22_Witness ==
    /\ call.op = "Read"
    /\ call.executed
    /\ call.sql # sql
    /\ Len(call.params) = 1
    /\ Len(params) = 2

\* the correspondence checks an input violates
Violates(kind) ==
    CASE kind = "ErrParameterNotFound" ->
             SuppliedNames(atSign) \ Range(namedParamRegex(sql)) # {}
      [] kind = "ErrParameterNotProvided" ->
             Range(namedParamRegex(sql)) \ SuppliedNames(atSign) # {}
      [] kind = "ErrIdentifierNotFound" ->
             SuppliedNames(dollarSign) \ Range(identifierParamRegex(sql)) # {}
      [] kind = "ErrIdentifierNotProvided" ->
             Range(identifierParamRegex(sql)) \ SuppliedNames(dollarSign) # {}
      [] kind = "ErrNotEnoughPositionalParams" -> FoundPositional > ProvidedPositional
      [] kind = "ErrTooManyPositionalParams" -> FoundPositional < ProvidedPositional

\* the order the claim gives the checks
CheckOrder ==
    <<"ErrParameterNotFound", "ErrParameterNotProvided", "ErrIdentifierNotFound",
      "ErrIdentifierNotProvided", "ErrNotEnoughPositionalParams",
      "ErrTooManyPositionalParams">>

ViolatedPositions == {k \in 1..Len(CheckOrder) : Violates(CheckOrder[k])}

\* C24: on a non-empty SQL with valid names, an input that violates one or
\* several correspondence checks gets the error of the violated check that
\* comes first in the order ParameterNotFound, ParameterNotProvided,
\* IdentifierNotFound, IdentifierNotProvided, positional-count mismatch.
C24_FirstViolatedCheckReported ==
    (pc = "done" /\ sql # <<>> /\ NamesValid /\ ViolatedPositions # {}) =>
        ret.err = CheckOrder[Min(ViolatedPositions)]

\* an unused '@' binding is reported although an identifier placeholder has no
\* binding and the '?' count is wrong as well
C24_Witness ==
    /\ pc = "done"
    /\ ret.err = "ErrParameterNotFound"
    /\ Violates("ErrIdentifierNotProvided")
    /\ Violates("ErrNotEnoughPositionalParams")

ValueErrors == {"ErrIdentifierInvalidChars", "ErrIdentifierEmpty", "ErrIdentifierTooLong"}

\* C25: an identifier-value error is returned only when every correspondence
\* and positional-count check passes; and the value of the placeholder it
\* names decides its kind, the rejected characters first: a value with an
\* invalid code point gives IdentifierInvalidChars also when it has more than
\* 1024 bytes, IdentifierTooLong is given only for a value without one.
C25_ValueErrorsComeLast ==
    (pc = "done" /\ ret.err \in ValueErrors) =>
        /\ CorrespondenceOK
        /\ ret.name \in SuppliedNames(dollarSign)
        /\ HasInvalid(TextOf(EffectiveValue(ret.name))) <=> ret.err = "ErrIdentifierInvalidChars"
        /\ ret.err = "ErrIdentifierEmpty" => ValueBytes(ret.name) = 0
        /\ ret.err = "ErrIdentifierTooLong" => ValueBytes(ret.name) > maxIdentifierBytes

\* a value of 1025 bytes with a backtick is reported for its characters
C25_Witness ==
    /\ pc = "done"
    /\ ret.err = "ErrIdentifierInvalidChars"
    /\ ValueBytes(ret.name) > maxIdentifierBytes
    /\ ret.chars = <<backtick>>

\* C26: after Run or Read has translated a Query successfully, another Run or
\* Read on it translates successfully again and leaves its SQL text and its
\* parameter list as the first translation left them.
C26_RepeatedRunIsIdempotent ==
    [][(/\ call.op \in {"Run", "Read"} /\ call.err = "nil"
        /\ call'.op \in {"Run", "Read"})
       => /\ call'.err = "nil"
          /\ q'.Q = q.Q
          /\ q'.Parameters = q.Parameters]_vars

C29_ArgumentsUnchanged ==
    [][(pc = "start" /\ pc' = "done") => (params' = params /\ sql' = sql)]_vars

\* the native binding returned is named a, the caller's binding still @a
C29_Witness ==
    /\ Succeeded
    /\ Len(params) = 2
    /\ params[2].Name = <<atSign, 97>>
    /\ ret.params[Len(ret.params)].Name = <<97>>

C23_ConcurrentCallsAsAlone ==
    /\ [](\A t \in DOMAIN threads :
            threads[t].pc = "done" =>
                IF threads[t].kind = "translate"
                THEN threads[t].ret \in translate(threads[t].sql, threads[t].params)
                ELSE threads[t].quoteRet = QuoteIdentifier(threads[t].identifier))
    /\ [][patterns' = patterns]_vars

\* two translate calls on different SQL texts, the first returned with success
\* after the second matched its own text and before the second made its checks
C23_Witness ==
    /\ DOMAIN threads = 1..MaxThreads
    /\ threads[1].kind = "translate" /\ threads[2].kind = "translate"
    /\ threads[1].sql # threads[2].sql
    /\ threads[1].pc = "done" /\ threads[1].ret.err = "nil"
    /\ threads[1].ret.sql = <<96, 116, 96>>
    /\ threads[2].pc = "check"
    /\ threads[2].found.parametersInSql = {<<64, 97>>}

====
